---- MODULE Spec2Model ----
(***************************************************************************)
(* Construction primitives of the GCSA builder (gcsa2): the internal      *)
(* support structures of internal.h (ValueIndex, SLArray, PriorityQueue,  *)
(* ReadBuffer) and the encodings of support.h (Key, Node, PathNode, LCP). *)
(*                                                                         *)
(* Every structure has its own specification.  A specification drives     *)
(* the variables of its structure and leaves the others at their idle     *)
(* values.  64-bit words are modelled as the set of their one-bits        *)
(* (positions 0..63), so that shifts lose exactly the bits a 64-bit       *)
(* register loses.                                                         *)
(***************************************************************************)
EXTENDS Integers, Sequences, FiniteSets, TLC

VARIABLES
  file,    \* std::ifstream of the ReadBuffer: disk records, stream state, get position
  rb,      \* ReadBuffer fields: elements, offset, buffer
  obs,     \* the last ReadBuffer call: what it returned and which file operations it made
  walk,    \* position of the sequential reader that drives the ReadBuffer
  sl,      \* SLArray fields: data, large_values
  incs,    \* number of increment(i) calls made so far, per slot
  pq,      \* PriorityQueue::data
  pqio,    \* the caller of the PriorityQueue: original contents, extracted output
  vi,      \* ValueIndex fields: values, first_occ
  viin,    \* the input vector the ValueIndex was built from
  args,    \* arguments of a call of a static function of Key, Node, PathNode or LCP
  ret      \* value returned by that call

vars == <<file, rb, obs, walk, sl, incs, pq, pqio, vi, viin, args, ret>>

rbVars == <<file, rb, obs, walk>>
slVars == <<sl, incs>>
pqVars == <<pq, pqio>>
viVars == <<vi, viin>>
fnVars == <<args, ret>>

Min(a, b) == IF a < b THEN a ELSE b

Range(s) == {s[i] : i \in 1..Len(s)}

\* Sequences over S of length lo..hi.
SeqsOf(S, lo, hi) == UNION {[1..n -> S] : n \in lo..hi}

----------------------------------------------------------------------------
(* Idle values: the state of a structure no specification is driving.      *)

IdleRB ==
  /\ file = [data |-> <<>>, exists |-> FALSE, open |-> FALSE, good |-> TRUE, pos |-> 0]
  /\ rb = [elements |-> 0, offset |-> 0, buffer |-> <<>>]
  /\ obs = [op |-> "none"]
  /\ walk = [phase |-> "idle"]

IdleSL == sl = [data |-> <<>>, large_values |-> <<>>] /\ incs = <<>>

IdlePQ == pq = <<>> /\ pqio = [phase |-> "idle"]

IdleVI == vi = [state |-> "idle"] /\ viin = <<>>

IdleFn == args = [fn |-> "none"] /\ ret = [fn |-> "none"]

----------------------------------------------------------------------------
(* ReadBuffer (internal.h).  File positions and read lengths are counted   *)
(* in records: the code multiplies both by sizeof(Element).                *)

\* Window sizes, in records.  The code's BUFFER_SIZE is MEGABYTE; the model
\* keeps the ratio MINIMUM_SIZE = BUFFER_SIZE / 2 at a checkable size.
BUFFER_SIZE == 4
MINIMUM_SIZE == BUFFER_SIZE \div 2

\* Longest file, in records.
MaxFile == 7

\* The value of a vector element that no read has overwritten.
BLANK == -1

\* The i-th record (from 0) of the file on disk.
Record(i) == 100 + i

FileOf(n) == [j \in 1..n |-> Record(j - 1)]

\* ReadBuffer::buffered
buffered(b, i) == i >= b.offset /\ i < b.offset + Len(b.buffer)

\* std::ifstream::seekg(i, beg): moves the get position of a good stream,
\* and does nothing on a stream that is not good.
seekg(f, i) == IF f.open /\ f.good THEN [f EXCEPT !.pos = i] ELSE f

\* std::ifstream::read of count records into temp (count blank elements):
\* the records from the get position on, as many as the file has; a short
\* read leaves the rest of temp untouched and sets failbit.
readAvail(f, count) ==
  IF f.open /\ f.good THEN Min(count, Len(f.data) - Min(f.pos, Len(f.data))) ELSE 0

readTemp(f, count) ==
  [j \in 1..count |-> IF j <= readAvail(f, count) THEN f.data[f.pos + j] ELSE BLANK]

readFile(f, count) ==
  IF readAvail(f, count) = count
  THEN [f EXCEPT !.pos = f.pos + count]
  ELSE [f EXCEPT !.pos = f.pos + readAvail(f, count), !.good = FALSE]

\* ReadBuffer::fill on the pair <<file, buffer fields>>; o counts the file
\* operations of the call.
fillMut(s) ==
  LET target_size == Min(BUFFER_SIZE, s.rb.elements - s.rb.offset)
      count == target_size + 1 - Len(s.rb.buffer)
  IN IF Len(s.rb.buffer) >= target_size THEN s
     ELSE [file |-> readFile(s.file, count),
           rb |-> [s.rb EXCEPT !.buffer = @ \o readTemp(s.file, count)],
           o |-> [s.o EXCEPT !.reads = @ + 1]]

fill(s) ==
  LET target_size == Min(BUFFER_SIZE, s.rb.elements - s.rb.offset)
      count == target_size - Len(s.rb.buffer)
  IN IF Len(s.rb.buffer) >= target_size THEN s
     ELSE [file |-> readFile(s.file, count),
           rb |-> [s.rb EXCEPT !.buffer = @ \o readTemp(s.file, count)],
           o |-> [s.o EXCEPT !.reads = @ + 1]]

\* ReadBuffer::pop, repeated while offset < i.
popTo(b, i) ==
  IF b.offset < i
  THEN [b EXCEPT !.offset = i, !.buffer = SubSeq(@, i - b.offset + 1, Len(@))]
  ELSE b

\* ReadBuffer::seek
seekMut(s, i) ==
  IF i >= s.rb.elements THEN s
  ELSE IF buffered(s.rb, i)
  THEN [s EXCEPT !.rb = popTo(s.rb, i)]
  ELSE fill([file |-> seekg(s.file, i),
             rb |-> [s.rb EXCEPT !.buffer = <<>>, !.offset = i],
             o |-> [s.o EXCEPT !.discards = @ + 1, !.seekgs = @ + 1]])

seek(s, i) ==
  IF i >= s.rb.elements THEN s
  ELSE IF buffered(s.rb, i)
  THEN LET p == [s EXCEPT !.rb = popTo(s.rb, i)]
       IN IF Len(p.rb.buffer) < MINIMUM_SIZE THEN fill(p) ELSE p
  ELSE fill([file |-> seekg(s.file, i),
             rb |-> [s.rb EXCEPT !.buffer = <<>>, !.offset = i],
             o |-> [s.o EXCEPT !.discards = @ + 1, !.seekgs = @ + 1]])

\* ReadBuffer::operator[]: the state after the call; the element returned
\* is buffer[i - offset] of that state.
atMut(s, i) == seek(s, i)

at(s, i) == IF buffered(s.rb, i) THEN s ELSE seek(s, i)

NoOps == [reads |-> 0, discards |-> 0, seekgs |-> 0]

Reseek == [reads |-> 1, discards |-> 1, seekgs |-> 1]

Call == [file |-> file, rb |-> rb, o |-> NoOps]

\* What a call of operator[](i) leaves behind.
Accessed(s, i, phase) ==
  /\ file' = s.file
  /\ rb' = s.rb
  /\ obs' = [op |-> "access", i |-> i, got |-> s.rb.buffer[i - s.rb.offset + 1],
             ops |-> s.o, was_buffered |-> buffered(rb, i), phase |-> phase]

\* ReadBuffer::init on a file that opens: clear(), open, elements, offset.
\* Opening puts the get position at the start of the file.
RBInit ==
  /\ walk.phase \in {"random", "start"}
  /\ file.exists
  /\ file' = [file EXCEPT !.open = TRUE, !.good = TRUE, !.pos = 0]
  /\ rb' = [elements |-> Len(file.data), offset |-> 0, buffer |-> <<>>]
  /\ obs' = [op |-> "init"]
  /\ walk' = IF walk.phase = "start" THEN [phase |-> "first", next |-> 0] ELSE walk

\* ReadBuffer::operator[] with an index of the file.
RBAccess(i) ==
  /\ walk.phase = "random"
  /\ file.open
  /\ i < rb.elements
  /\ Accessed(at(Call, i), i, "random")
  /\ UNCHANGED walk

\* ReadBuffer::seek called by the user of the buffer, with any index.
RBSeek(i) ==
  /\ walk.phase = "random"
  /\ file.open
  /\ LET s == seek(Call, i)
     IN /\ file' = s.file
        /\ rb' = s.rb
        /\ obs' = [op |-> "seek", i |-> i, ops |-> s.o, was_buffered |-> buffered(rb, i)]
  /\ UNCHANGED walk

\* After construction: no file is open yet, the window is empty.  elements
\* and offset are not set by the constructor; init sets them before any use.
InitRB ==
  /\ \E n \in 0..MaxFile :
       file = [data |-> FileOf(n), exists |-> TRUE, open |-> FALSE, good |-> TRUE, pos |-> 0]
  /\ rb = [elements |-> 0, offset |-> 0, buffer |-> <<>>]
  /\ obs = [op |-> "none"]
  /\ walk = [phase |-> "random"]
  /\ IdleSL /\ IdlePQ /\ IdleVI /\ IdleFn

NextRB ==
  \/ RBInit /\ UNCHANGED <<slVars, pqVars, viVars, fnVars>>
  \/ \E i \in 0..MaxFile : RBAccess(i) /\ UNCHANGED <<slVars, pqVars, viVars, fnVars>>
  \/ \E i \in 0..MaxFile : RBSeek(i) /\ UNCHANGED <<slVars, pqVars, viVars, fnVars>>

Spec == InitRB /\ [][NextRB]_vars

\* C1: after init on a file of N records, every operator[](i) with
\* 0 <= i < N returns the i-th record of the file, whatever accesses and
\* seeks came before it.
ReadBufferEquivalence ==
  obs.op = "access" => obs.got = Record(obs.i)

\* An access outside the window, away from both ends of the file, that
\* returned the record asked for.
ReadBufferEquivalenceWitness ==
  /\ obs.op = "access"
  /\ ~obs.was_buffered
  /\ obs.i > 0
  /\ obs.i + BUFFER_SIZE < rb.elements
  /\ obs.got = Record(obs.i)

----------------------------------------------------------------------------
(* A sequential reader on a file much longer than the window: it reads    *)
(* consecutive indices from 0 inside the first window, jumps once to an   *)
(* index outside the window, and walks forward from there one index at a  *)
(* time until the file ends.                                               *)

\* Longest file of the sequential reader, in records.
MaxWalkFile == 14

WalkFirst ==
  /\ walk.phase = "first"
  /\ walk.next < BUFFER_SIZE
  /\ Accessed(at(Call, walk.next), walk.next, "first")
  /\ walk' = [walk EXCEPT !.next = @ + 1]

WalkJump(j) ==
  /\ walk.phase = "first"
  /\ walk.next >= 1
  /\ j < rb.elements
  /\ ~buffered(rb, j)
  /\ Accessed(at(Call, j), j, "jump")
  /\ walk' = [phase |-> "walk", next |-> j + 1, jump |-> j]

WalkForward ==
  /\ walk.phase = "walk"
  /\ walk.next < rb.elements
  /\ Accessed(at(Call, walk.next), walk.next, "walk")
  /\ walk' = [walk EXCEPT !.next = @ + 1]

InitWalk ==
  /\ \E n \in (2 * BUFFER_SIZE + 1)..MaxWalkFile :
       file = [data |-> FileOf(n), exists |-> TRUE, open |-> FALSE, good |-> TRUE, pos |-> 0]
  /\ rb = [elements |-> 0, offset |-> 0, buffer |-> <<>>]
  /\ obs = [op |-> "none"]
  /\ walk = [phase |-> "start"]
  /\ IdleSL /\ IdlePQ /\ IdleVI /\ IdleFn

NextWalk ==
  \/ RBInit /\ UNCHANGED <<slVars, pqVars, viVars, fnVars>>
  \/ WalkFirst /\ UNCHANGED <<slVars, pqVars, viVars, fnVars>>
  \/ \E j \in 0..MaxWalkFile : WalkJump(j) /\ UNCHANGED <<slVars, pqVars, viVars, fnVars>>
  \/ WalkForward /\ UNCHANGED <<slVars, pqVars, viVars, fnVars>>

SpecWalk == InitWalk /\ [][NextWalk]_vars

\* The first two parts of C10: after the first fill, reading consecutive
\* indices inside the first window makes no file operation, and the jump
\* out of the window makes exactly one reseek (discard, seekg, one read).
FirstWindowAndJump ==
  /\ (obs.op = "access" /\ obs.phase = "first")
       => obs.ops = (IF obs.i = 0 THEN Reseek ELSE NoOps)
  /\ (obs.op = "access" /\ obs.phase = "jump") => obs.ops = Reseek

\* C10 as stated: ... and walking forward from the jump, for as long as the
\* file lasts, never discards the window and never repositions the file.
ReseekDisciplineAsStated ==
  /\ FirstWindowAndJump
  /\ (obs.op = "access" /\ obs.phase = "walk")
       => (obs.ops.discards = 0 /\ obs.ops.seekgs = 0)

\* C10 as amended: the first two parts stand; walking forward from the jump
\* makes no file operation while the index is inside the window, and the
\* first index past each window (every BUFFER_SIZE-th step after the jump)
\* makes a full reseek again, never a refill that keeps the window.
ReseekDiscipline ==
  /\ FirstWindowAndJump
  /\ (obs.op = "access" /\ obs.phase = "walk")
       => /\ obs.was_buffered = ((obs.i - walk.jump) % BUFFER_SIZE # 0)
          /\ obs.ops = (IF obs.was_buffered THEN NoOps ELSE Reseek)
          /\ rb.offset = obs.i - ((obs.i - walk.jump) % BUFFER_SIZE)

\* The walk has crossed the end of the window the jump had filled.
ReseekDisciplineWitness ==
  /\ obs.op = "access"
  /\ obs.phase = "walk"
  /\ obs.i = walk.jump + BUFFER_SIZE
  /\ obs.ops = Reseek
  /\ obs.got = Record(obs.i)

----------------------------------------------------------------------------
(* SLArray (internal.h): one byte per slot, large values in a std::map.    *)
(* data and the ghost counter incs are functions on the slots 0..n-1;      *)
(* large_values is a function on the keys the map holds.                   *)

LARGE_VALUE == 255

\* Number of slots of the largest array.
MaxSlots == 2

\* A caller increments a slot one call at a time up to Near calls and from
\* Burst calls on, and in between in one run of Burst calls.
Near == 4
Burst == 250

\* No slot is incremented more often than this.
MaxIncs == 258

\* byte_type arithmetic
Byte(x) == x % 256

\* SLArray::operator[]; std::map::at throws on a key the map does not hold.
Get(a, i) ==
  IF a.data[i] = LARGE_VALUE
  THEN IF i \in DOMAIN a.large_values THEN a.large_values[i] ELSE "out_of_range"
  ELSE a.data[i]

\* std::map::operator[]: a key the map does not hold is inserted with value 0.
MapRef(m, i) == IF i \in DOMAIN m THEN m ELSE [k \in DOMAIN m \cup {i} |-> IF k = i THEN 0 ELSE m[k]]

\* SLArray::increment
incrementMut(a, i) ==
  IF a.data[i] = LARGE_VALUE
  THEN [a EXCEPT !.large_values = [MapRef(a.large_values, i) EXCEPT ![i] = @ + 1]]
  ELSE LET b == [a EXCEPT !.data[i] = Byte(@ + 1)]
       IN IF b.data[i] = LARGE_VALUE
          THEN [b EXCEPT !.large_values = [MapRef(b.large_values, i) EXCEPT ![i] = @ + 1]]
          ELSE b

increment(a, i) ==
  IF a.data[i] = LARGE_VALUE
  THEN [a EXCEPT !.large_values = [MapRef(a.large_values, i) EXCEPT ![i] = @ + 1]]
  ELSE LET b == [a EXCEPT !.data[i] = Byte(@ + 1)]
       IN IF b.data[i] = LARGE_VALUE
          THEN [b EXCEPT !.large_values = [MapRef(b.large_values, i) EXCEPT ![i] = LARGE_VALUE]]
          ELSE b

\* k calls of increment(i) in a row.
RECURSIVE incrementTimes(_, _, _)
incrementTimes(a, i, k) ==
  IF k = 0 THEN a
  ELSE IF k = 1 THEN increment(a, i)
  ELSE LET half == incrementTimes(a, i, k \div 2)
       IN IF i \in DOMAIN half.data THEN incrementTimes(half, i, k - k \div 2) ELSE half

\* One call of increment(i).
SLIncrement(i) ==
  /\ i \in DOMAIN incs
  /\ incs[i] + 1 <= MaxIncs
  /\ incs[i] < Near \/ incs[i] >= Burst
  /\ sl' = increment(sl, i)
  /\ incs' = [incs EXCEPT ![i] = @ + 1]

\* A caller's loop of Burst calls of increment(i).
SLBurst(i) ==
  /\ i \in DOMAIN incs
  /\ incs[i] + Burst <= MaxIncs
  /\ sl' = incrementTimes(sl, i, Burst)
  /\ incs' = [incs EXCEPT ![i] = @ + Burst]

\* SLArray(n): n slots, all 0, no large values.
InitSL ==
  /\ \E n \in 1..MaxSlots :
       /\ sl = [data |-> [i \in 0..(n - 1) |-> 0], large_values |-> <<>>]
       /\ incs = [i \in 0..(n - 1) |-> 0]
  /\ IdleRB /\ IdlePQ /\ IdleVI /\ IdleFn

NextSL ==
  \/ \E i \in 0..(MaxSlots - 1) : SLIncrement(i) /\ UNCHANGED <<rbVars, pqVars, viVars, fnVars>>
  \/ \E i \in 0..(MaxSlots - 1) : SLBurst(i) /\ UNCHANGED <<rbVars, pqVars, viVars, fnVars>>

SpecSL == InitSL /\ [][NextSL]_vars

\* C2: after any sequence of increment calls, operator[](i) of every slot
\* equals the number of increment(i) calls made so far, below, at and above
\* 255; so an increment of one slot leaves the value of every other slot.
SLArrayCounts ==
  \A i \in DOMAIN incs : Get(sl, i) = incs[i]

\* One slot has been promoted and incremented past 255 while another slot
\* holds a count of its own in its byte.
SLArrayCountsWitness ==
  \E i, j \in DOMAIN incs :
    /\ incs[i] = 256 /\ Get(sl, i) = 256
    /\ incs[j] = 254 /\ Get(sl, j) = 254

----------------------------------------------------------------------------
(* PriorityQueue (internal.h): a binary min-heap in data.  Element i of    *)
(* the code is data[i + 1] here.                                           *)

\* Length of the longest buffer.
MaxHeap == 6

\* Largest element; the elements are 0..MaxElem.
MaxElem == 2

parent(i) == (i - 1) \div 2
left(i) == 2 * i + 1
right(i) == 2 * i + 2

\* PriorityQueue::smaller
smaller(d, i, j) == IF d[j + 1] < d[i + 1] THEN j ELSE i

swap(d, i, j) == [d EXCEPT ![i + 1] = d[j + 1], ![j + 1] = d[i + 1]]

\* PriorityQueue::down
RECURSIVE down(_, _)
downMut(d, i) ==
  IF left(i) < Len(d)
  THEN LET next == smaller(d, i, left(i))
       IN IF next = i THEN d ELSE down(swap(d, i, next), next)
  ELSE d

down(d, i) ==
  IF left(i) < Len(d)
  THEN LET n1 == smaller(d, i, left(i))
           next == IF right(i) < Len(d) THEN smaller(d, n1, right(i)) ELSE n1
       IN IF next = i THEN d ELSE down(swap(d, i, next), next)
  ELSE d

\* The loop of heapify: down(i), down(i - 1), ..., down(0).
RECURSIVE heapifyFrom(_, _)
heapifyFrom(d, i) == IF i = 0 THEN down(d, 0) ELSE heapifyFrom(down(d, i), i - 1)

\* PriorityQueue::heapify
heapify(d) == IF Len(d) <= 1 THEN d ELSE heapifyFrom(d, parent(Len(d) - 1))

PQHeapify ==
  /\ pqio.phase = "filled"
  /\ pq' = heapify(pq)
  /\ pqio' = [pqio EXCEPT !.phase = "heap"]

\* The caller extracts the root: output data[0], move the last element to
\* index 0, shrink by one, down(0).
PQExtract ==
  /\ pqio.phase = "heap"
  /\ Len(pq) > 0
  /\ pq' = LET moved == [pq EXCEPT ![1] = pq[Len(pq)]]
           IN down(SubSeq(moved, 1, Len(pq) - 1), 0)
  /\ pqio' = [pqio EXCEPT !.out = Append(@, pq[1])]

\* The caller has filled the buffer, with anything.
InitPQ ==
  /\ pq \in SeqsOf(0..MaxElem, 0, MaxHeap)
  /\ pqio = [phase |-> "filled", orig |-> pq, out |-> <<>>]
  /\ IdleRB /\ IdleSL /\ IdleVI /\ IdleFn

NextPQ ==
  \/ PQHeapify /\ UNCHANGED <<rbVars, slVars, viVars, fnVars>>
  \/ PQExtract /\ UNCHANGED <<rbVars, slVars, viVars, fnVars>>

SpecPQ == InitPQ /\ [][NextPQ]_vars

Count(s, x) == Cardinality({k \in 1..Len(s) : s[k] = x})

IsHeap(d) == \A i \in 1..(Len(d) - 1) : ~(d[i + 1] < d[parent(i) + 1])

\* C3: after heapify every element is not less than its parent, and
\* extracting the root until the heap is empty outputs a nondecreasing
\* sequence that holds exactly the original elements.
PriorityQueueSorts ==
  pqio.phase = "heap" =>
    /\ IsHeap(pq)
    /\ \A k \in 1..(Len(pqio.out) - 1) : pqio.out[k] <= pqio.out[k + 1]
    /\ \A x \in 0..MaxElem : Count(pqio.out, x) + Count(pq, x) = Count(pqio.orig, x)

\* A buffer with duplicates that was not a heap has been heapified and
\* extracted to the last element.
PriorityQueueSortsWitness ==
  /\ pqio.phase = "heap"
  /\ Len(pq) = 0
  /\ Len(pqio.out) >= 5
  /\ ~IsHeap(pqio.orig)
  /\ \E k \in 1..(Len(pqio.out) - 1) : pqio.out[k] = pqio.out[k + 1]
  /\ pqio.out # pqio.orig

----------------------------------------------------------------------------
(* 64-bit words (key_type, node_type, size_type) as sets of one-bits.      *)

Bits == 0..63

RECURSIVE Pow2(_)
Pow2(n) == IF n = 0 THEN 1 ELSE 2 * Pow2(n - 1)

\* The word of a number below 2^31: its binary digits from bit b up.
RECURSIVE WordFrom(_, _)
WordFrom(n, b) ==
  IF n = 0 THEN {} ELSE (IF n % 2 = 1 THEN {b} ELSE {}) \cup WordFrom(n \div 2, b + 1)

W(n) == WordFrom(n, 0)

\* The number of a word below 2^31.
PowersOf2 == [b \in 0..30 |-> Pow2(b)]

RECURSIVE Val(_)
Val(w) == IF w = {} THEN 0 ELSE LET b == CHOOSE x \in w : TRUE IN PowersOf2[b] + Val(w \ {b})

Shl(w, n) == {b + n : b \in w} \cap Bits
Shr(w, n) == {b - n : b \in {x \in w : x >= n}}
Or(v, w) == v \cup w
And(v, w) == v \cap w

----------------------------------------------------------------------------
(* Key (support.h): 16 x 3 bits of label, 8 bits of predecessors, 8 bits   *)
(* of successors.  A kmer is a sequence of characters; alpha.char2comp     *)
(* maps a character to its comp value.                                     *)

CHAR_WIDTH == 3
CHAR_MASK == W(7)
MAX_LENGTH == 16
PRED_SUCC_MASK == W(65535)

\* The alphabet {$=0, A=1, C=2, G=3, T=4}.
Chars == {"$", "A", "C", "G", "T"}

DnaAlphabet ==
  [char2comp |-> [c \in Chars |->
     CASE c = "$" -> 0 [] c = "A" -> 1 [] c = "C" -> 2 [] c = "G" -> 3 [] c = "T" -> 4]]

\* The loop of Key::encode over kmer[i], i = n..length-1, from value.
RECURSIVE encodeChars(_, _, _, _)
encodeChars(alpha, kmer, n, value) ==
  IF n > Len(kmer) THEN value
  ELSE encodeChars(alpha, kmer, n + 1, Or(Shl(value, CHAR_WIDTH), W(alpha.char2comp[kmer[n]])))

\* Key::encode; pred and succ are bytes.
Key_encodeMut(alpha, kmer, pred, succ) ==
  Or(Shl(Or(Shl(encodeChars(alpha, kmer, 1, {}), 8), succ), 8), pred)

Key_encode(alpha, kmer, pred, succ) ==
  Or(Shl(Or(Shl(encodeChars(alpha, kmer, 1, {}), 8), pred), 8), succ)

Key_label(key) == Shr(key, 16)
Key_predecessors(key) == And(Shr(key, 8), W(255))
Key_successors(key) == And(key, W(255))
Key_last(key) == And(Shr(key, 16), CHAR_MASK)

\* The loop of Key::lcp on the labels a and b.
RECURSIVE lcpLoop(_, _, _, _)
lcpLoop(a, b, mask, res) ==
  IF mask # {}
  THEN LET m == Shr(mask, CHAR_WIDTH)
       IN IF And(a, m) # And(b, m) THEN res ELSE lcpLoop(a, b, m, res + 1)
  ELSE res

\* Key::lcp
Key_lcp(a, b, kmer_length) ==
  lcpLoop(Key_label(a), Key_label(b), Shl(CHAR_MASK, CHAR_WIDTH * kmer_length), 0)

\* Kmers of every length up to MaxKmer are enumerated in full.
MaxKmer == 2

\* The predecessor and successor masks the keys are built with.
Masks == {W(0), W(16), W(2), W(255)}

\* The kmers of length k: all of them for k <= MaxKmer; for longer k the
\* kmers x...xy...y with the change of character at the front, after the
\* first character, before the last character or nowhere.
KmersOf(k) ==
  IF k <= MaxKmer THEN [1..k -> Chars]
  ELSE {[j \in 1..k |-> IF j <= p THEN x ELSE y] : p \in {0, 1, k - 1}, x \in Chars, y \in Chars}

\* The longest common prefix of two sequences of the same length.
RECURSIVE CommonPrefix(_, _, _)
CommonPrefix(s, u, n) ==
  IF n < Len(s) /\ s[n + 1] = u[n + 1] THEN CommonPrefix(s, u, n + 1) ELSE n

Comps(alpha, kmer) == [j \in 1..Len(kmer) |-> alpha.char2comp[kmer[j]]]

\* A call of Key::lcp on two keys that encode kmers of length k.
CallKeyLcp ==
  /\ args.fn = "Key::lcp"
  /\ ret.fn = "none"
  /\ ret' = [fn |-> "Key::lcp", value |-> Key_lcp(args.a, args.b, args.k)]
  /\ UNCHANGED args

InitKeyLcp ==
  /\ \E k \in (1..MaxKmer) \cup {MAX_LENGTH} :
       \E ka \in KmersOf(k), kb \in KmersOf(k), m \in Masks, n \in {W(0), W(255)} :
         args = [fn |-> "Key::lcp", k |-> k, kmer_a |-> ka, kmer_b |-> kb,
                 a |-> Key_encode(DnaAlphabet, ka, m, n),
                 b |-> Key_encode(DnaAlphabet, kb, n, m)]
  /\ ret = [fn |-> "none"]
  /\ IdleRB /\ IdleSL /\ IdlePQ /\ IdleVI

NextKeyLcp == CallKeyLcp /\ UNCHANGED <<rbVars, slVars, pqVars, viVars>>

SpecKeyLcp == InitKeyLcp /\ [][NextKeyLcp]_vars

\* C4: for keys a and b that encode kmers of length k, 1 <= k <= 16,
\* identical kmers included, Key::lcp(a, b, k) is the length of the longest
\* common prefix of their comp sequences, a value in 0..k, whatever the
\* predecessor and successor bits of the keys.
KeyLcpConsistency ==
  ret.fn = "Key::lcp" =>
    /\ ret.value = CommonPrefix(Comps(DnaAlphabet, args.kmer_a), Comps(DnaAlphabet, args.kmer_b), 0)
    /\ ret.value \in 0..args.k

\* The part of C4 the code keeps: kmers that differ somewhere.
KeyLcpOfDistinct ==
  (ret.fn = "Key::lcp" /\ args.kmer_a # args.kmer_b) =>
    /\ ret.value = CommonPrefix(Comps(DnaAlphabet, args.kmer_a), Comps(DnaAlphabet, args.kmer_b), 0)
    /\ ret.value \in 0..(args.k - 1)

\* What the code returns for two keys of the same kmer.
KeyLcpOfEqual ==
  (ret.fn = "Key::lcp" /\ args.kmer_a = args.kmer_b) => ret.value = args.k + 1

----------------------------------------------------------------------------
(* Key::encode and the decoders of its fields.                            *)

\* Longest kmer that is encoded.
MaxEncoded == 3

CallKeyEncode ==
  /\ args.fn = "Key::encode"
  /\ ret.fn = "none"
  /\ LET key == Key_encode(DnaAlphabet, args.kmer, args.pred, args.succ)
     IN ret' = [fn |-> "Key::encode", key |-> key, label |-> Key_label(key),
                predecessors |-> Key_predecessors(key), successors |-> Key_successors(key),
                last |-> Key_last(key)]
  /\ UNCHANGED args

InitKeyEncode ==
  /\ \E kmer \in SeqsOf(Chars, 1, MaxEncoded), pred \in Masks, succ \in Masks :
       args = [fn |-> "Key::encode", kmer |-> kmer, pred |-> pred, succ |-> succ]
  /\ ret = [fn |-> "none"]
  /\ IdleRB /\ IdleSL /\ IdlePQ /\ IdleVI

NextKeyEncode == CallKeyEncode /\ UNCHANGED <<rbVars, slVars, pqVars, viVars>>

SpecKeyEncode == InitKeyEncode /\ [][NextKeyEncode]_vars

\* "ACG" encoded with predecessor mask 0x10 and successor mask 0x02.
EncodedACG ==
  /\ ret.fn = "Key::encode"
  /\ args.kmer = <<"A", "C", "G">>
  /\ args.pred = W(16)
  /\ args.succ = W(2)

\* What C5 says of the key apart from its label.
LayoutBelowLabel ==
  /\ And(ret.key, PRED_SUCC_MASK) = W(4098)
  /\ ret.predecessors = W(16)
  /\ ret.successors = W(2)
  /\ ret.last = W(DnaAlphabet.char2comp["G"])

\* C5 as stated: the key of "ACG", 0x10, 0x02 has label
\* (1<<9)|(2<<6)|(3<<3) = 664, lower 16 bits 0x1002, and last(key) is the
\* comp value of G.
KeyLayoutAsStated ==
  EncodedACG => (Val(ret.label) = 664 /\ LayoutBelowLabel)

\* C5 as amended: the label is (1<<6)|(2<<3)|3 = 83, the last character in
\* the lowest three bits of the label; the rest as stated.
KeyLayout ==
  EncodedACG => (Val(ret.label) = 83 /\ ret.label = W(83) /\ LayoutBelowLabel)

KeyLayoutWitness ==
  EncodedACG /\ Val(ret.label) = 83 /\ Val(ret.last) = 3

----------------------------------------------------------------------------
(* Node (support.h): 54 bits of id, 10 bits of offset.                     *)

OFFSET_BITS == 10
OFFSET_MASK == W(1023)

\* Node::encode(node_id, node_offset)
Node_encodeMut(node_id, node_offset) == Or(Shl(node_id, OFFSET_BITS - 1), node_offset)

Node_encode(node_id, node_offset) == Or(Shl(node_id, OFFSET_BITS), node_offset)

Node_id(node) == Shr(node, OFFSET_BITS)
Node_offset(node) == And(node, OFFSET_MASK)

\* Ids 0..MaxId and offsets within MaxOff of 0 and of 1024 are tried, with
\* the largest ids and offsets.
MaxId == 5
MaxOff == 3

NodeIds == {W(n) : n \in 0..MaxId} \cup {{53}, 0..53, (0..53) \ {0}}

NodeOffsets ==
  {W(n) : n \in 0..MaxOff} \cup {W(1024 - d) : d \in 1..MaxOff} \cup {W(1024 + d) : d \in 0..MaxOff}
    \cup {{10}, {63}, Bits}

CallNodeEncode ==
  /\ args.fn = "Node::encode"
  /\ ret.fn = "none"
  /\ LET node == Node_encode(args.id, args.offset)
     IN ret' = [fn |-> "Node::encode", node |-> node, id |-> Node_id(node),
                offset |-> Node_offset(node)]
  /\ UNCHANGED args

InitNode ==
  /\ \E id \in NodeIds, offset \in NodeOffsets :
       args = [fn |-> "Node::encode", id |-> id, offset |-> offset]
  /\ ret = [fn |-> "none"]
  /\ IdleRB /\ IdleSL /\ IdlePQ /\ IdleVI

NextNode == CallNodeEncode /\ UNCHANGED <<rbVars, slVars, pqVars, viVars>>

SpecNode == InitNode /\ [][NextNode]_vars

\* C6 as stated: for every id < 2^54 and every offset, also offsets >= 1024,
\* encode(id, offset) = (id << 10) | (offset & 0x3FF), id(encode(id, offset))
\* = id and offset(encode(id, offset)) = offset & 0x3FF.
NodeCodecAsStated ==
  ret.fn = "Node::encode" =>
    /\ ret.node = Or(Shl(args.id, 10), And(args.offset, W(1023)))
    /\ ret.id = args.id
    /\ ret.offset = And(args.offset, W(1023))

\* C6 as amended: for every id < 2^54 and every offset < 1024,
\* encode(id, offset) = (id << 10) | offset, id(encode(id, offset)) = id and
\* offset(encode(id, offset)) = offset; for every offset,
\* offset(encode(id, offset)) = offset & 0x3FF, while the bits of the offset
\* from bit 10 up are in id(encode(id, offset)) beside those of the id.
NodeCodec ==
  ret.fn = "Node::encode" =>
    /\ ret.offset = And(args.offset, W(1023))
    /\ ret.id = Or(args.id, Shr(args.offset, 10))
    /\ args.offset \subseteq 0..9 =>
         /\ ret.node = Or(Shl(args.id, 10), args.offset)
         /\ ret.id = args.id
         /\ ret.offset = args.offset

\* The largest id with the largest offset below 1024.
NodeCodecWitness ==
  /\ ret.fn = "Node::encode"
  /\ args.id = 0..53
  /\ args.offset = W(1023)
  /\ ret.node = Bits
  /\ ret.id = args.id

----------------------------------------------------------------------------
(* PathNode (support.h): the packed fields word and the two orders.       *)
(* first_label and last_label are arrays of LABEL_LENGTH ranks; entry i   *)
(* of the code is entry i + 1 here.                                        *)

LABEL_LENGTH == 8

\* The masks 0xFF, 0xF00, 0xF000 and 0xF of the fields word.
PREDECESSOR_FIELD == W(255)
ORDER_FIELD == W(3840)
LCP_FIELD == W(61440)
NIBBLE == W(15)

\* PathNode::setPredecessors, setOrder, setLCP on the fields word.
setPredecessors(fields, preds) == Or(fields \ PREDECESSOR_FIELD, preds)
setOrder(fields, new_order) == Or(fields \ ORDER_FIELD, Shl(W(new_order), 8))
setLCP(fields, new_lcp) == Or(fields \ LCP_FIELD, Shl(W(new_lcp), 12))

\* PathNode::order
order(pn) == Val(And(Shr(pn.fields, 8), NIBBLE))

\* The loop of operator< and compareLast over i = n..ord-1 on two arrays:
\* "less" or "greater" at the first difference, "equal" without one.
RECURSIVE firstDifference(_, _, _, _)
firstDifference(x, y, n, ord) ==
  IF n < ord
  THEN IF x[n + 1] # y[n + 1]
       THEN (IF x[n + 1] < y[n + 1] THEN "less" ELSE "greater")
       ELSE firstDifference(x, y, n + 1, ord)
  ELSE "equal"

\* PathNode::operator<
Less(this, another) ==
  LET d == firstDifference(this.first_label, another.first_label, 0,
                           Min(order(this), order(another)))
  IN IF d = "equal" THEN order(this) < order(another) ELSE d = "less"

\* PathNode::compareLast
compareLastMut(this, another) ==
  LET d == firstDifference(this.last_label, another.last_label, 0,
                           Min(order(this), order(another)))
  IN IF d = "equal" THEN order(this) < order(another) ELSE d = "less"

compareLast(this, another) ==
  LET d == firstDifference(this.last_label, another.last_label, 0,
                           Min(order(this), order(another)))
  IN IF d = "equal" THEN order(another) < order(this) ELSE d = "less"

\* Longest label sequence and largest rank of the nodes that are compared.
MaxOrder == 2
MaxRank == 1

\* A label array: the sequence s, then pad up to LABEL_LENGTH.
LabelArray(s, pad) == [i \in 1..LABEL_LENGTH |-> IF i <= Len(s) THEN s[i] ELSE pad]

\* The nodes that are compared: every first_label sequence over the ranks,
\* with a last_label that is the same sequence (a single label) or the
\* sequence with its final rank one higher (a range of two).  The entries
\* of the arrays from order on hold pad.
PathNodes(pad) ==
  {[fields |-> setLCP(setOrder(setPredecessors({}, W(255)), Len(s)), 0),
    first_label |-> LabelArray(s, pad),
    last_label |-> LabelArray([s EXCEPT ![Len(s)] = @ + w], pad)] :
      s \in SeqsOf(0..MaxRank, 1, MaxOrder), w \in 0..1}

FirstSeq(pn) == SubSeq(pn.first_label, 1, order(pn))
LastSeq(pn) == SubSeq(pn.last_label, 1, order(pn))

IsProperPrefix(s, u) == Len(s) < Len(u) /\ SubSeq(u, 1, Len(s)) = s

\* A call of both comparisons on a pair of nodes, in both directions.
CallCompare ==
  /\ args.fn = "PathNode::compare"
  /\ ret.fn = "none"
  /\ ret' = [fn |-> "PathNode::compare",
             lt_ab |-> Less(args.a, args.b), lt_ba |-> Less(args.b, args.a),
             lt_aa |-> Less(args.a, args.a),
             cl_ab |-> compareLast(args.a, args.b), cl_ba |-> compareLast(args.b, args.a),
             cl_aa |-> compareLast(args.a, args.a)]
  /\ UNCHANGED args

InitPathNode ==
  /\ \E pad \in 0..MaxRank : \E a \in PathNodes(pad), b \in PathNodes(pad) :
       args = [fn |-> "PathNode::compare", a |-> a, b |-> b, pad |-> pad]
  /\ ret = [fn |-> "none"]
  /\ IdleRB /\ IdleSL /\ IdlePQ /\ IdleVI

NextPathNode == CallCompare /\ UNCHANGED <<rbVars, slVars, pqVars, viVars>>

SpecPathNode == InitPathNode /\ [][NextPathNode]_vars

\* C7: over PathNodes with order in [1, 8], operator< is a strict total
\* order on the first_label sequences (irreflexive, transitive, exactly one
\* of a < b, b < a when the sequences differ) in which a proper prefix is
\* smaller; compareLast is a strict total order on the last_label sequences
\* in which a proper prefix is larger.
PathNodeOrdering ==
  ret.fn = "PathNode::compare" =>
    LET a == args.a
        b == args.b
    IN /\ ~ret.lt_aa
       /\ ~ret.cl_aa
       /\ FirstSeq(a) # FirstSeq(b) => (ret.lt_ab # ret.lt_ba)
       /\ FirstSeq(a) = FirstSeq(b) => (~ret.lt_ab /\ ~ret.lt_ba)
       /\ LastSeq(a) # LastSeq(b) => (ret.cl_ab # ret.cl_ba)
       /\ LastSeq(a) = LastSeq(b) => (~ret.cl_ab /\ ~ret.cl_ba)
       /\ IsProperPrefix(FirstSeq(a), FirstSeq(b)) => (ret.lt_ab /\ ~ret.lt_ba)
       /\ IsProperPrefix(LastSeq(a), LastSeq(b)) => (~ret.cl_ab /\ ret.cl_ba)
       /\ \A c \in PathNodes(args.pad) :
            /\ (ret.lt_ab /\ Less(b, c)) => Less(a, c)
            /\ (ret.cl_ab /\ compareLast(b, c)) => compareLast(a, c)

\* a is a proper prefix of b in both labels: smaller by operator<, larger
\* by compareLast.
PathNodeOrderingWitness ==
  /\ ret.fn = "PathNode::compare"
  /\ order(args.a) = 1
  /\ order(args.b) = 2
  /\ IsProperPrefix(FirstSeq(args.a), FirstSeq(args.b))
  /\ IsProperPrefix(LastSeq(args.a), LastSeq(args.b))
  /\ ret.lt_ab /\ ~ret.lt_ba /\ ~ret.cl_ab /\ ret.cl_ba

----------------------------------------------------------------------------
(* LCP (support.h): extendRange over kmer_lcp.  Entry i of kmer_lcp is     *)
(* kmer_lcp[i + 1] here.                                                   *)

\* The loops of LCP::extendRange.
RECURSIVE extendFirstMut(_, _, _)
extendFirstMut(l, first, lcp) ==
  IF first > 0 /\ l.kmer_lcp[first + 1] > lcp THEN extendFirstMut(l, first - 1, lcp) ELSE first

RECURSIVE extendFirst(_, _, _)
extendFirst(l, first, lcp) ==
  IF first > 0 /\ l.kmer_lcp[first + 1] >= lcp THEN extendFirst(l, first - 1, lcp) ELSE first

RECURSIVE extendSecond(_, _, _)
extendSecond(l, second, lcp) ==
  IF second + 1 < l.total_keys /\ l.kmer_lcp[second + 2] >= lcp
  THEN extendSecond(l, second + 1, lcp)
  ELSE second

\* LCP::extendRange
extendRange(l, range, lcp) ==
  [first |-> extendFirst(l, range.first, lcp), second |-> extendSecond(l, range.second, lcp)]

\* Largest number of keys and largest kmer length of the LCP structures.
MaxKeys == 5
MaxKmerLength == 2

\* The LCP structures: kmer_lcp[0] = 0, every other entry in 0..kmer_length.
LCPs ==
  UNION {{[kmer_length |-> k, total_keys |-> Len(a), kmer_lcp |-> a] :
            a \in {x \in SeqsOf(0..k, 1, MaxKeys) : x[1] = 0}} : k \in 1..MaxKmerLength}

CallExtendRange ==
  /\ args.fn = "LCP::extendRange"
  /\ ret.fn = "none"
  /\ ret' = [fn |-> "LCP::extendRange", range |-> extendRange(args.this, args.range, args.lcp)]
  /\ UNCHANGED args

InitLCP ==
  /\ \E l \in LCPs : \E lo \in 0..(l.total_keys - 1) : \E hi \in lo..(l.total_keys - 1) :
       \E v \in 0..(MaxKmerLength + 1) :
         args = [fn |-> "LCP::extendRange", this |-> l,
                 range |-> [first |-> lo, second |-> hi], lcp |-> v]
  /\ ret = [fn |-> "none"]
  /\ IdleRB /\ IdleSL /\ IdlePQ /\ IdleVI

NextLCP == CallExtendRange /\ UNCHANGED <<rbVars, slVars, pqVars, viVars>>

SpecLCP == InitLCP /\ [][NextLCP]_vars

\* C8: extendRange((lo, hi), l) returns (lo', hi') with lo' <= lo and
\* hi <= hi', kmer_lcp[j] >= l for every j in (lo', lo] and in (hi, hi'],
\* and no wider range has that: lo' = 0 or kmer_lcp[lo'] < l, and
\* hi' = total_keys - 1 or kmer_lcp[hi' + 1] < l.
ExtendRangeMaximal ==
  ret.fn = "LCP::extendRange" =>
    LET lcp == args.this.kmer_lcp
        lo == args.range.first
        hi == args.range.second
        lo2 == ret.range.first
        hi2 == ret.range.second
    IN /\ lo2 <= lo /\ hi <= hi2
       /\ lo2 >= 0 /\ hi2 <= args.this.total_keys - 1
       /\ \A j \in (lo2 + 1)..lo : lcp[j + 1] >= args.lcp
       /\ \A j \in (hi + 1)..hi2 : lcp[j + 1] >= args.lcp
       /\ lo2 = 0 \/ lcp[lo2 + 1] < args.lcp
       /\ hi2 = args.this.total_keys - 1 \/ lcp[hi2 + 2] < args.lcp

\* A range that was widened on both sides and stopped inside the array on
\* both sides.
ExtendRangeMaximalWitness ==
  /\ ret.fn = "LCP::extendRange"
  /\ ret.range.first < args.range.first
  /\ ret.range.second > args.range.second
  /\ ret.range.first > 0
  /\ ret.range.second < args.this.total_keys - 1

----------------------------------------------------------------------------
(* ValueIndex (internal.h).  The input is a vector of elements; Getter::get *)
(* returns the value of an element.  Bit vectors are sequences of 0 and 1; *)
(* bit i of the code is entry i + 1 here.                                  *)

\* Longest input and largest value of the inputs.
MaxInput == 4
MaxValue == 3

\* ~(size_type)0, the value prev starts with; no input of the model holds it.
ALL_ONES == -1

\* Getter::get
get(element) == element.value

\* The loop of the constructor over i = n..size-1: buffer and first_occ.
RECURSIVE scanInputMut(_, _, _, _)
scanInputMut(input, n, prev, acc) ==
  IF n >= Len(input) THEN acc
  ELSE LET curr == get(input[n + 1])
       IN IF curr # prev
          THEN scanInputMut(input, n + 1, prev,
                            [buffer |-> Append(acc.buffer, curr),
                             first_occ |-> [acc.first_occ EXCEPT ![n + 1] = 1]])
          ELSE scanInputMut(input, n + 1, prev, acc)

RECURSIVE scanInput(_, _, _, _)
scanInput(input, n, prev, acc) ==
  IF n >= Len(input) THEN acc
  ELSE LET curr == get(input[n + 1])
       IN IF curr # prev
          THEN scanInput(input, n + 1, curr,
                         [buffer |-> Append(acc.buffer, curr),
                          first_occ |-> [acc.first_occ EXCEPT ![n + 1] = 1]])
          ELSE scanInput(input, n + 1, prev, acc)

IsSorted(s) == \A i \in 1..(Len(s) - 1) : s[i] <= s[i + 1]

\* sdsl::sd_vector<>(begin, end) of a sorted list: as long as the last
\* value + 1, with the bits of the listed values set.
sd_vector(buffer) ==
  [v \in 1..(buffer[Len(buffer)] + 1) |-> IF (v - 1) \in Range(buffer) THEN 1 ELSE 0]

\* What the constructor of sd_vector makes of the buffer.  The library takes
\* a sorted list; given another it either throws or, unchecked, builds from
\* the list as if it were sorted.
sd_vector_outcomes(buffer) ==
  IF IsSorted(buffer)
  THEN {[state |-> "built", values |-> sd_vector(buffer)]}
  ELSE {[state |-> "threw"], [state |-> "built", values |-> sd_vector(buffer)]}

\* rank_1 on values: the number of ones in [0, value).
value_rank(values, value) == Cardinality({v \in 1..value : values[v] = 1})

\* select_1 on first_occ: the position of the r-th one.
first_select(first_occ, r) ==
  CHOOSE i \in 0..(Len(first_occ) - 1) :
    first_occ[i + 1] = 1 /\ Cardinality({j \in 1..(i + 1) : first_occ[j] = 1}) = r

\* ValueIndex::find
find(x, value) ==
  IF value >= Len(x.values) \/ x.values[value + 1] = 0 THEN Len(x.first_occ)
  ELSE first_select(x.first_occ, value_rank(x.values, value) + 1)

\* ValueIndex::ValueIndex(input)
VIConstruct ==
  /\ vi.state = "none"
  /\ LET scan == scanInput(viin, 0, ALL_ONES,
                           [buffer |-> <<>>, first_occ |-> [i \in 1..Len(viin) |-> 0]])
     IN IF Len(scan.buffer) > 0
        THEN \E made \in sd_vector_outcomes(scan.buffer) :
               vi' = IF made.state = "threw" THEN [state |-> "threw"]
                     ELSE [state |-> "built", values |-> made.values, first_occ |-> scan.first_occ]
        ELSE vi' = [state |-> "built", values |-> <<>>, first_occ |-> scan.first_occ]
  /\ UNCHANGED <<viin, args, ret>>

\* A call of find(value) on the index.
VIFind(value) ==
  /\ vi.state = "built"
  /\ args' = [fn |-> "ValueIndex::find", value |-> value]
  /\ ret' = [fn |-> "ValueIndex::find", value |-> find(vi, value)]
  /\ UNCHANGED <<vi, viin>>

\* Before construction; the input is any vector of elements.
InitVI ==
  /\ \E s \in SeqsOf(0..MaxValue, 0, MaxInput) :
       viin = [i \in 1..Len(s) |-> [value |-> s[i], id |-> i - 1]]
  /\ vi = [state |-> "none"]
  /\ IdleFn
  /\ IdleRB /\ IdleSL /\ IdlePQ

NextVI ==
  \/ VIConstruct /\ UNCHANGED <<rbVars, slVars, pqVars>>
  \/ \E v \in 0..(MaxValue + 1) : VIFind(v) /\ UNCHANGED <<rbVars, slVars, pqVars>>

SpecVI == InitVI /\ [][NextVI]_vars

InputValues == [i \in 1..Len(viin) |-> get(viin[i])]

\* The smallest index whose element has the value, or the input length.
FirstIndex(v) ==
  IF \E i \in 1..Len(viin) : get(viin[i]) = v
  THEN (CHOOSE i \in 1..Len(viin) :
          get(viin[i]) = v /\ \A j \in 1..(i - 1) : get(viin[j]) # v) - 1
  ELSE Len(viin)

\* C9 as stated: for every input, in any order of values, the index is
\* built and find(v) returns the smallest index i with get(input[i]) = v,
\* and the input length when v does not occur.
ValueIndexLookupAsStated ==
  /\ vi.state # "threw"
  /\ ret.fn = "ValueIndex::find" => ret.value = FirstIndex(args.value)

\* C9 as amended: for every input whose values are nondecreasing (and below
\* 2^64 - 1), empty or not, find(v) returns the smallest index i with
\* get(input[i]) = v, and the input length when v does not occur.
ValueIndexLookup ==
  IsSorted(InputValues) =>
    /\ vi.state # "threw"
    /\ ret.fn = "ValueIndex::find" => ret.value = FirstIndex(args.value)

\* A value with several occurrences that is not the first of a sorted input
\* has been found.
ValueIndexLookupWitness ==
  /\ ret.fn = "ValueIndex::find"
  /\ IsSorted(InputValues)
  /\ ret.value >= 2
  /\ ret.value + 1 < Len(viin)
  /\ get(viin[ret.value + 2]) = args.value
  /\ ret.value = FirstIndex(args.value)

----------------------------------------------------------------------------
(* ReadBuffer: the window that seek leaves behind.                        *)

\* The last call was seek(i).
Sought == obs.op = "seek"

----------------------------------------------------------------------------
(* ReadBuffer when the input fails: the file may be missing when init     *)
(* opens it, and it may be cut short on disk after init has taken its     *)
(* size, so that a later read of fill meets the end of the file before    *)
(* it has the records it asked for.                                       *)

\* ReadBuffer::init on a file that cannot be opened: the message on
\* std::cerr and std::exit(EXIT_FAILURE).
RBInitFatal ==
  /\ walk.phase = "random"
  /\ ~file.exists
  /\ obs' = [op |-> "exit", status |-> "EXIT_FAILURE"]
  /\ walk' = [phase |-> "exited"]
  /\ UNCHANGED <<file, rb>>

\* The file loses its records from the n-th on while the buffer has it open.
FileTruncate(n) ==
  /\ walk.phase = "random"
  /\ file.open
  /\ n < Len(file.data)
  /\ file' = [file EXCEPT !.data = SubSeq(@, 1, n)]
  /\ UNCHANGED <<rb, obs, walk>>

InitFailure ==
  /\ \E n \in 0..MaxFile : \E e \in BOOLEAN :
       file = [data |-> FileOf(n), exists |-> e, open |-> FALSE, good |-> TRUE, pos |-> 0]
  /\ rb = [elements |-> 0, offset |-> 0, buffer |-> <<>>]
  /\ obs = [op |-> "none"]
  /\ walk = [phase |-> "random"]
  /\ IdleSL /\ IdlePQ /\ IdleVI /\ IdleFn

NextFailure ==
  \/ RBInit /\ UNCHANGED <<slVars, pqVars, viVars, fnVars>>
  \/ RBInitFatal /\ UNCHANGED <<slVars, pqVars, viVars, fnVars>>
  \/ \E n \in 0..MaxFile : FileTruncate(n) /\ UNCHANGED <<slVars, pqVars, viVars, fnVars>>
  \/ \E i \in 0..MaxFile : RBAccess(i) /\ UNCHANGED <<slVars, pqVars, viVars, fnVars>>
  \/ \E i \in 0..MaxFile : RBSeek(i) /\ UNCHANGED <<slVars, pqVars, viVars, fnVars>>

SpecFailure == InitFailure /\ [][NextFailure]_vars

\* The job has been terminated.
Exited == walk.phase = "exited"

\* A read of fill delivered fewer records than it asked for: the stream
\* the buffer holds open has failbit set.
ShortRead == file.open /\ ~file.good

\* C11: init on a file that cannot be opened terminates the job; whenever a
\* read of fill delivers fewer records than requested the ReadBuffer reports
\* the failure (the job does not go on); the window never holds a record
\* that was not read from the file, and operator[] never returns one.
FailureSemantics ==
  /\ (~file.exists /\ obs.op # "none") => Exited
  /\ ShortRead => Exited
  /\ BLANK \notin Range(rb.buffer)
  /\ obs.op = "access" => obs.got # BLANK

\* The part of C11 that the code keeps: a ReadBuffer never works on a file
\* that could not be opened, the job ends at the failed init.
OpenFailureIsFatal ==
  /\ (~file.exists /\ obs.op # "none") => (Exited /\ obs.op = "exit")
  /\ ~file.exists => (~file.open /\ rb.buffer = <<>>)

\* operator[] returned an element that no read delivered, and the job goes on.
UnreadRecordReturned ==
  /\ obs.op = "access"
  /\ obs.got = BLANK
  /\ ~Exited

====
